---- MODULE Spec2Model ----
(***************************************************************************)
(* A model of cross-org/deepmerge: deepMerge, deepMerge.withOptions and    *)
(* simpleMerge (src/src/deepmerge.ts).                                     *)
(*                                                                         *)
(* The JavaScript heap is a sequence of objects; an object's identity is   *)
(* its index.  A value is a record [t, v]: a primitive (t is its typeof    *)
(* class, v an integer code) or a reference (t = "ref", v the identity).   *)
(* The recursion of deepMergeCore / simpleMergeCore is an explicit stack   *)
(* of frames; one action is one step of the core function.                 *)
(***************************************************************************)
EXTENDS Integers, Sequences, FiniteSets, TLC

\* ------------------------------------------------------------------ bounds

\* Longest list of sources handed to an entry point.
MaxSources == 2

\* Date instants are 0..MaxTime.
MaxTime == 2

\* Longest key path the claims follow into a value.
MaxPath == 5

\* The most objects on the heap when a caller goes on to another call.
MaxObjects == 6

\* ------------------------------------------------------------------ values

Undefined == [t |-> "undefined", v |-> 0]
Null == [t |-> "null", v |-> 0]
Num(n) == [t |-> "number", v |-> n]
Str(n) == [t |-> "string", v |-> n]
Bool(n) == [t |-> "boolean", v |-> n]
Ref(i) == [t |-> "ref", v |-> i]

IsRef(x) == x.t = "ref"

\* The string code 0 is "", the boolean code 0 is false, the number 0 is 0.
Truthy(x) ==
    CASE x.t = "undefined" -> FALSE
      [] x.t = "null" -> FALSE
      [] x.t = "ref" -> TRUE
      [] OTHER -> x.v # 0

\* Property names used by the modelled objects, in no particular order.
Keys == {"a", "b"}

\* ------------------------------------------------------------------ heap

\* An object: kind is its constructor name; props are its own enumerable
\* properties in insertion order; items are the elements of an Array or a
\* Set; entries are the [key, value] pairs of a Map; time is a Date's instant.
NewObj(kind) ==
    [kind |-> kind, props |-> <<>>, items |-> <<>>, entries |-> <<>>, time |-> 0]

EmptyRecord == NewObj("Object")

KindOf(h, x) == IF IsRef(x) THEN h[x.v].kind ELSE "none"

IsArray(h, x) == KindOf(h, x) = "Array"
IsMap(h, x) == KindOf(h, x) = "Map"
IsSet(h, x) == KindOf(h, x) = "Set"
IsDate(h, x) == KindOf(h, x) = "Date"

\* isObject: a non-null object that is no Array, Map or Set (a Date passes).
IsObject(h, x) == IsRef(x) /\ KindOf(h, x) \notin {"Array", "Map", "Set"}

\* sourceValue.constructor.name of a truthy value.
TypeTag(h, x) ==
    CASE x.t = "number" -> "Number"
      [] x.t = "string" -> "String"
      [] x.t = "boolean" -> "Boolean"
      [] x.t = "ref" -> h[x.v].kind
      [] OTHER -> "none"

SeqIndex(s, P(_)) ==
    LET hits == {i \in 1..Len(s) : P(s[i])}
    IN IF hits = {} THEN 0 ELSE CHOOSE i \in hits : \A j \in hits : i <= j

PropIndex(o, k) == SeqIndex(o.props, LAMBDA p : p[1] = k)

HasProp(h, x, k) == IsRef(x) /\ PropIndex(h[x.v], k) # 0

\* current[key]: an own property, undefined when missing or when current is a
\* primitive (the modelled keys name nothing on the prototypes).
GetProp(h, x, k) ==
    IF HasProp(h, x, k) THEN h[x.v].props[PropIndex(h[x.v], k)][2] ELSE Undefined

\* An object with property k set: in place when present, appended when new.
WithProp(o, k, val) ==
    LET i == PropIndex(o, k)
    IN IF i = 0
       THEN [o EXCEPT !.props = Append(@, <<k, val>>)]
       ELSE [o EXCEPT !.props[i] = <<k, val>>]

\* for (const key in source): the own enumerable keys, in insertion order.
ForInKeys(h, x) == [i \in 1..Len(h[x.v].props) |-> h[x.v].props[i][1]]

Alloc(h, o) == Append(h, o)

\* ------------------------------------------------------------------ options

DEFAULT_OPTIONS ==
    [arrayMergeStrategy |-> "combine", setMergeStrategy |-> "combine",
     mapMergeStrategy |-> "combine", dateMergeStrategy |-> "replace"]

StrategyFields ==
    {"arrayMergeStrategy", "setMergeStrategy", "mapMergeStrategy", "dateMergeStrategy"}

\* The constructor names customMergeFunctions may be keyed by.
Tags == {"Number", "String", "Boolean", "Object", "Array", "Set", "Map", "Date"}

NoCustom == [g \in Tags |-> "none"]

\* { ...DEFAULT_OPTIONS, ...options }: a field the caller's object holds, even
\* with the value undefined, replaces the default; "absent" is a missing field.
ResolveOptions(user) ==
    [f \in StrategyFields \cup {"customMergeFunctions"} |->
        IF f = "customMergeFunctions" THEN user[f]
        ELSE IF user[f] = "absent" THEN DEFAULT_OPTIONS[f] ELSE user[f]]

\* deepMerge passes { ...DEFAULT_OPTIONS }: no customMergeFunctions field.
PlainOptions ==
    [f \in StrategyFields \cup {"customMergeFunctions"} |->
        IF f = "customMergeFunctions" THEN NoCustom ELSE DEFAULT_OPTIONS[f]]

\* The custom merge functions of the model: (t, s) => "custom" (the string
\* code 9), (t, s) => t and (t, s) => s.
CustomMarker == Str(9)

ApplyCustom(fn, targetVal, sourceVal) ==
    CASE fn = "marker" -> CustomMarker
      [] fn = "target" -> targetVal
      [] OTHER -> sourceVal

\* ------------------------------------------------------------------ collections

RECURSIVE Dedupe(_)
\* Array.from(new Set(s)) and new Set(s): first occurrences, in order.
Dedupe(s) ==
    IF s = <<>> THEN <<>>
    ELSE LET d == Dedupe(SubSeq(s, 1, Len(s) - 1))
             x == s[Len(s)]
         IN IF \E i \in 1..Len(d) : d[i] = x THEN d ELSE Append(d, x)

RECURSIVE MapFromEntries(_)
\* new Map(es): a key met again keeps its place and takes the later value.
MapFromEntries(es) ==
    IF es = <<>> THEN <<>>
    ELSE LET d == MapFromEntries(SubSeq(es, 1, Len(es) - 1))
             e == es[Len(es)]
             i == SeqIndex(d, LAMBDA p : p[1] = e[1])
         IN IF i = 0 THEN Append(d, e) ELSE [d EXCEPT ![i] = e]

\* [...(target || [])] for the Array and Set strategies.  ok is FALSE when the
\* spread throws (a truthy target that is not iterable); a Map spreads into
\* fresh [key, value] arrays.
SpreadTarget(h, target) ==
    CASE ~Truthy(target) -> [ok |-> TRUE, heap |-> h, vals |-> <<>>]
      [] IsArray(h, target) \/ IsSet(h, target) ->
            [ok |-> TRUE, heap |-> h, vals |-> h[target.v].items]
      [] IsMap(h, target) ->
            LET es == h[target.v].entries
            IN [ok |-> TRUE,
                heap |-> h \o [i \in 1..Len(es) |->
                            [NewObj("Array") EXCEPT !.items = <<es[i][1], es[i][2]>>]],
                vals |-> [i \in 1..Len(es) |-> Ref(Len(h) + i)]]
      [] target.t = "string" -> [ok |-> TRUE, heap |-> h, vals |-> <<target>>]
      [] OTHER -> [ok |-> FALSE, heap |-> h, vals |-> <<>>]

\* The [key, value] the Map constructor reads off one iterated element; a
\* primitive element is no entry object and throws.
EntryOf(h, x) ==
    IF IsArray(h, x)
    THEN LET it == h[x.v].items
         IN <<IF Len(it) >= 1 THEN it[1] ELSE Undefined,
              IF Len(it) >= 2 THEN it[2] ELSE Undefined>>
    ELSE <<Undefined, Undefined>>

\* [...(target || [])] as read by new Map(...).
TargetEntries(h, target) ==
    CASE ~Truthy(target) -> [ok |-> TRUE, pairs |-> <<>>]
      [] IsMap(h, target) -> [ok |-> TRUE, pairs |-> h[target.v].entries]
      [] IsArray(h, target) \/ IsSet(h, target) ->
            LET it == h[target.v].items
            IN [ok |-> \A i \in 1..Len(it) : IsRef(it[i]),
                pairs |-> [i \in 1..Len(it) |-> EntryOf(h, it[i])]]
      [] OTHER -> [ok |-> FALSE, pairs |-> <<>>]

\* ------------------------------------------------------------------ the core

(***************************************************************************)
(* A machine m is one top-level call in progress:                          *)
(*   heap     the objects, the sources first                               *)
(*   visited  the WeakMap: source identity -> the current it was given     *)
(*   stack    the frames of deepMergeCore / simpleMergeCore, innermost last*)
(*   status   "idle", "running", "done" or "threw" (a TypeError)           *)
(*   ret      the value the top-level call returned                        *)
(*   mode     "deep" or "simple";  opts  the resolved options              *)
(* A frame holds current, the sources not yet taken (rest), the source     *)
(* whose keys are being walked (src), the keys still to walk, pc ("entry": *)
(* at the top of the function, "loop": in the for-in) and wkey, the key    *)
(* whose nested call the frame waits for.                                  *)
(***************************************************************************)
Frame(current, sources) ==
    [cur |-> current, rest |-> sources, src |-> Undefined, keys |-> <<>>,
     pc |-> "entry", wkey |-> ""]

Top(m) == m.stack[Len(m.stack)]

SetTop(m, f) == [m EXCEPT !.stack[Len(m.stack)] = f]

\* An uncaught TypeError ends the call.
Throw(m) == [m EXCEPT !.status = "threw", !.stack = <<>>, !.ret = Undefined]

\* return rv: the top-level call ends, or the caller's
\* current[key] = deepMergeCore(...) stores it.
DoReturn(m, rv) ==
    LET n == Len(m.stack)
    IN IF n = 1
       THEN [m EXCEPT !.stack = <<>>, !.status = "done", !.ret = rv]
       ELSE LET parent == m.stack[n - 1]
            IN IF ~IsRef(parent.cur) THEN Throw(m)
               ELSE [m EXCEPT !.stack = SubSeq(@, 1, n - 1),
                              !.heap[parent.cur.v] = WithProp(@, parent.wkey, rv)]

\* if (!sources.length) return current;
StepReturnCurrent(m) == DoReturn(m, Top(m).cur)

\* A slip: an absent source ends the call with current.
StepSkipAbsentStops(m) == DoReturn(m, Top(m).cur)

\* source === undefined || source === null: go on with the rest.
StepSkipAbsent(m) == SetTop(m, [Top(m) EXCEPT !.rest = Tail(@)])

\* A slip: if (visited.has(source)) return;
StepRevisitReturnsNothing(m) == DoReturn(m, Undefined)

\* A slip: a source already visited ends the whole call, at any depth.
StepRevisitEndsCall(m) ==
    [m EXCEPT !.stack = <<>>, !.status = "done", !.ret = m.visited[Head(Top(m).rest).v]]

\* A slip: a source already visited is skipped and the rest is folded.
StepRevisitGoesOn(m) == SetTop(m, [Top(m) EXCEPT !.rest = Tail(@)])

\* if (visited.has(source)) return visited.get(source);
StepRevisit(m) == DoReturn(m, m.visited[Head(Top(m).rest).v])

\* A slip: visited.set(source, source).
StepVisitSelf(m) ==
    LET f == Top(m)
        source == Head(f.rest)
        ids == DOMAIN m.visited \cup {source.v}
    IN [SetTop(m, [f EXCEPT !.src = source, !.rest = Tail(@), !.pc = "loop",
                            !.keys = ForInKeys(m.heap, source)])
          EXCEPT !.visited = [i \in ids |-> IF i = source.v THEN source ELSE m.visited[i]]]

\* visited.set(source, current), then the for-in starts.
StepVisit(m) ==
    LET f == Top(m)
        source == Head(f.rest)
        ids == DOMAIN m.visited \cup {source.v}
    IN [SetTop(m, [f EXCEPT !.src = source, !.rest = Tail(@), !.pc = "loop",
                            !.keys = ForInKeys(m.heap, source)])
          EXCEPT !.visited = [i \in ids |-> IF i = source.v THEN f.cur ELSE m.visited[i]]]

\* A source that is no object: return source;
StepReturnSource(m) == DoReturn(m, Head(Top(m).rest))

\* The for-in is over: return deepMergeCore(current, options, visited, ...rest).
StepLoopDone(m) == SetTop(m, [Top(m) EXCEPT !.pc = "entry", !.src = Undefined])

CurKey(m) == Head(Top(m).keys)

\* const sourceValue = source[key];
SourceValue(m) == GetProp(m.heap, Top(m).src, CurKey(m))

\* (current as MergeableObject)[key]
TargetValue(m) == GetProp(m.heap, Top(m).cur, CurKey(m))

\* current[key] = val on heap h, and on to the next key.  The module is strict
\* code: a property written on a primitive current throws.
StoreKey(m, h, val) ==
    LET f == Top(m)
    IN IF ~IsRef(f.cur) THEN Throw(m)
       ELSE [SetTop(m, [f EXCEPT !.keys = Tail(@)])
                EXCEPT !.heap = [h EXCEPT ![f.cur.v] = WithProp(@, CurKey(m), val)]]

\* The custom merge function registered for the source value, "none" if the
\* guard  sourceValue && customMergeFunctions && customMergeFunctions[name]
\* fails.
CustomFor(m, sv) ==
    IF Truthy(sv) THEN m.opts.customMergeFunctions[TypeTag(m.heap, sv)] ELSE "none"

StepKeyCustom(m) ==
    StoreKey(m, m.heap, ApplyCustom(CustomFor(m, SourceValue(m)), TargetValue(m), SourceValue(m)))

\* A slip: new Map([...source, ...target]).
StepKeyMapTargetWins(m) ==
    LET sv == SourceValue(m)
        te == TargetEntries(m.heap, TargetValue(m))
        new == Ref(Len(m.heap) + 1)
    IN IF m.opts.mapMergeStrategy = "replace"
       THEN StoreKey(m, Alloc(m.heap, [NewObj("Map") EXCEPT !.entries = m.heap[sv.v].entries]), new)
       ELSE IF ~te.ok THEN Throw(m)
       ELSE StoreKey(m, Alloc(m.heap, [NewObj("Map") EXCEPT
                    !.entries = MapFromEntries(m.heap[sv.v].entries \o te.pairs)]), new)

\* A slip: "replace" stores the source map itself, as the Array branch does.
StepKeyMapReplaceAliases(m) ==
    LET sv == SourceValue(m)
        te == TargetEntries(m.heap, TargetValue(m))
        new == Ref(Len(m.heap) + 1)
    IN IF m.opts.mapMergeStrategy = "replace" THEN StoreKey(m, m.heap, sv)
       ELSE IF ~te.ok THEN Throw(m)
       ELSE StoreKey(m, Alloc(m.heap, [NewObj("Map") EXCEPT
                    !.entries = MapFromEntries(te.pairs \o m.heap[sv.v].entries)]), new)

StepKeyMap(m) ==
    LET sv == SourceValue(m)
        te == TargetEntries(m.heap, TargetValue(m))
        new == Ref(Len(m.heap) + 1)
    IN IF m.opts.mapMergeStrategy = "replace"
       THEN StoreKey(m, Alloc(m.heap, [NewObj("Map") EXCEPT !.entries = m.heap[sv.v].entries]), new)
       ELSE IF ~te.ok THEN Throw(m)
       ELSE StoreKey(m, Alloc(m.heap, [NewObj("Map") EXCEPT
                    !.entries = MapFromEntries(te.pairs \o m.heap[sv.v].entries)]), new)

\* A slip: "replace" handled like "combine".
StepKeySetNeverReplaces(m) ==
    LET sv == SourceValue(m)
        sp == SpreadTarget(m.heap, TargetValue(m))
        new == Ref(Len(sp.heap) + 1)
    IN IF ~sp.ok THEN Throw(m)
       ELSE StoreKey(m, Alloc(sp.heap, [NewObj("Set") EXCEPT
                    !.items = Dedupe(sp.vals \o m.heap[sv.v].items)]), new)

StepKeySet(m) ==
    LET sv == SourceValue(m)
        sp == SpreadTarget(m.heap, TargetValue(m))
        new == Ref(Len(sp.heap) + 1)
    IN IF m.opts.setMergeStrategy = "replace"
       THEN StoreKey(m, Alloc(m.heap, [NewObj("Set") EXCEPT !.items = m.heap[sv.v].items]),
                     Ref(Len(m.heap) + 1))
       ELSE IF ~sp.ok THEN Throw(m)
       ELSE StoreKey(m, Alloc(sp.heap, [NewObj("Set") EXCEPT
                    !.items = Dedupe(sp.vals \o m.heap[sv.v].items)]), new)

\* A slip: "unique" dedupes the source alone before appending it.
StepKeyArrayDedupeSource(m) ==
    LET sv == SourceValue(m)
        sp == SpreadTarget(m.heap, TargetValue(m))
        new == Ref(Len(sp.heap) + 1)
    IN CASE m.opts.arrayMergeStrategy = "unique" ->
               IF ~sp.ok THEN Throw(m)
               ELSE StoreKey(m, Alloc(sp.heap, [NewObj("Array") EXCEPT
                        !.items = sp.vals \o Dedupe(m.heap[sv.v].items)]), new)
         [] m.opts.arrayMergeStrategy = "replace" -> StoreKey(m, m.heap, sv)
         [] OTHER ->
               IF ~sp.ok THEN Throw(m)
               ELSE StoreKey(m, Alloc(sp.heap, [NewObj("Array") EXCEPT
                        !.items = sp.vals \o m.heap[sv.v].items]), new)

\* A slip: the default label sits on the "replace" case.
StepKeyArrayDefaultReplaces(m) ==
    LET sv == SourceValue(m)
        sp == SpreadTarget(m.heap, TargetValue(m))
        new == Ref(Len(sp.heap) + 1)
    IN CASE m.opts.arrayMergeStrategy = "unique" ->
               IF ~sp.ok THEN Throw(m)
               ELSE StoreKey(m, Alloc(sp.heap, [NewObj("Array") EXCEPT
                        !.items = Dedupe(sp.vals \o m.heap[sv.v].items)]), new)
         [] m.opts.arrayMergeStrategy = "combine" ->
               IF ~sp.ok THEN Throw(m)
               ELSE StoreKey(m, Alloc(sp.heap, [NewObj("Array") EXCEPT
                        !.items = sp.vals \o m.heap[sv.v].items]), new)
         [] OTHER -> StoreKey(m, m.heap, sv)

StepKeyArray(m) ==
    LET sv == SourceValue(m)
        sp == SpreadTarget(m.heap, TargetValue(m))
        new == Ref(Len(sp.heap) + 1)
    IN CASE m.opts.arrayMergeStrategy = "unique" ->
               IF ~sp.ok THEN Throw(m)
               ELSE StoreKey(m, Alloc(sp.heap, [NewObj("Array") EXCEPT
                        !.items = Dedupe(sp.vals \o m.heap[sv.v].items)]), new)
         [] m.opts.arrayMergeStrategy = "replace" -> StoreKey(m, m.heap, sv)
         [] OTHER ->
               IF ~sp.ok THEN Throw(m)
               ELSE StoreKey(m, Alloc(sp.heap, [NewObj("Array") EXCEPT
                        !.items = sp.vals \o m.heap[sv.v].items]), new)

StepKeyDate(m) ==
    LET sv == SourceValue(m)
        tv == TargetValue(m)
    IN IF ~IsDate(m.heap, tv) THEN StoreKey(m, m.heap, sv)
       ELSE LET targetGetTime == m.heap[tv.v].time
                sourceGetTime == m.heap[sv.v].time
            IN CASE m.opts.dateMergeStrategy = "keepEarlier" ->
                      StoreKey(m, m.heap, IF targetGetTime < sourceGetTime THEN tv ELSE sv)
                 [] m.opts.dateMergeStrategy = "keepLater" ->
                      StoreKey(m, m.heap, IF targetGetTime > sourceGetTime THEN tv ELSE sv)
                 [] OTHER -> StoreKey(m, m.heap, sv)

\* A slip: current[key] = {} whatever the key held.
StepKeyRecordFresh(m) ==
    LET h == Alloc(m.heap, EmptyRecord)
        nested == Ref(Len(h))
        stored == StoreKey(m, h, nested)
        key == CurKey(m)
    IN IF stored.status = "threw" THEN stored
       ELSE [SetTop(stored, [Top(stored) EXCEPT !.wkey = key])
                EXCEPT !.stack = Append(@, Frame(nested, <<SourceValue(m)>>))]

\* current[key] = current[key] || {}; then the nested call on [sourceValue],
\* whose return value DoReturn stores under the key.
StepKeyRecord(m) ==
    LET tv == TargetValue(m)
        fresh == ~Truthy(tv)
        h == IF fresh THEN Alloc(m.heap, EmptyRecord) ELSE m.heap
        nested == IF fresh THEN Ref(Len(h)) ELSE tv
        stored == StoreKey(m, h, nested)
        key == CurKey(m)
    IN IF stored.status = "threw" THEN stored
       ELSE [SetTop(stored, [Top(stored) EXCEPT !.wkey = key])
                EXCEPT !.stack = Append(@, Frame(nested, <<SourceValue(m)>>))]

\* current[key] = sourceValue;
StepKeyPrimitive(m) == StoreKey(m, m.heap, SourceValue(m))

\* A slip: simpleMergeCore overwrites every key and never recurses.
BranchSimpleShallow(m) ==
    LET sv == SourceValue(m)
        h == m.heap
    IN IF m.mode = "simple" THEN "primitive"
       ELSE CASE CustomFor(m, sv) # "none" -> "custom"
              [] IsMap(h, sv) -> "map"
              [] IsSet(h, sv) -> "set"
              [] IsArray(h, sv) -> "array"
              [] IsDate(h, sv) -> "date"
              [] IsObject(h, sv) -> "record"
              [] OTHER -> "primitive"

\* Which branch of the if / else-if chain takes the current key.
Branch(m) ==
    LET sv == SourceValue(m)
        h == m.heap
    IN IF m.mode = "simple"
       THEN IF IsObject(h, sv) THEN "record" ELSE "primitive"
       ELSE CASE CustomFor(m, sv) # "none" -> "custom"
              [] IsMap(h, sv) -> "map"
              [] IsSet(h, sv) -> "set"
              [] IsArray(h, sv) -> "array"
              [] IsDate(h, sv) -> "date"
              [] IsObject(h, sv) -> "record"
              [] OTHER -> "primitive"

\* Where the innermost frame stands.
At(m) ==
    IF m.status # "running" THEN m.status
    ELSE LET f == Top(m)
         IN CASE f.pc = "loop" /\ f.keys = <<>> -> "loopDone"
              [] f.pc = "loop" -> Branch(m)
              [] f.rest = <<>> -> "returnCurrent"
              [] Head(f.rest).t \in {"undefined", "null"} -> "skipAbsent"
              [] ~IsObject(m.heap, Head(f.rest)) -> "returnSource"
              [] Head(f.rest).v \in DOMAIN m.visited -> "revisit"
              [] OTHER -> "visit"

\* One step of the core function.
Step(m) ==
    LET at == At(m)
    IN CASE at = "returnCurrent" -> StepReturnCurrent(m)
         [] at = "skipAbsent" -> StepSkipAbsent(m)
         [] at = "returnSource" -> StepReturnSource(m)
         [] at = "revisit" -> StepRevisit(m)
         [] at = "visit" -> StepVisit(m)
         [] at = "loopDone" -> StepLoopDone(m)
         [] at = "custom" -> StepKeyCustom(m)
         [] at = "map" -> StepKeyMap(m)
         [] at = "set" -> StepKeySet(m)
         [] at = "array" -> StepKeyArray(m)
         [] at = "date" -> StepKeyDate(m)
         [] at = "record" -> StepKeyRecord(m)
         [] at = "primitive" -> StepKeyPrimitive(m)
         [] OTHER -> m

\* The entry points: const result = {}; const visited = new WeakMap();
\* return core(result, options, visited, ...sources).
StartCall(h, mode, opts, sources) ==
    [heap |-> Alloc(h, EmptyRecord), visited |-> <<>>,
     stack |-> <<Frame(Ref(Len(h) + 1), sources)>>,
     status |-> "running", ret |-> Undefined, mode |-> mode, opts |-> opts]

RECURSIVE RunToEnd(_)
\* The call run to its end.
RunToEnd(m) == IF m.status # "running" THEN m ELSE RunToEnd(Step(m))

\* ------------------------------------------------------------------ state

VARIABLES
    heap, visited, stack, status, ret, mode, opts,  \* the machine
    roots,   \* the values a caller may pass as top-level sources
    maxArgs, \* the longest list of sources a caller passes
    choices, \* the options objects a caller may pass to withOptions
    call,    \* the call made: the entry point and the sources
    heap0,   \* the heap when the call was made
    visits   \* the sources given to visited.set, in order

vars == <<heap, visited, stack, status, ret, mode, opts, roots, maxArgs, choices, call, heap0, visits>>

Mach ==
    [heap |-> heap, visited |-> visited, stack |-> stack, status |-> status,
     ret |-> ret, mode |-> mode, opts |-> opts]

SetMach(m) ==
    /\ heap' = m.heap
    /\ visited' = m.visited
    /\ stack' = m.stack
    /\ status' = m.status
    /\ ret' = m.ret
    /\ mode' = m.mode
    /\ opts' = m.opts

NoCall == [fn |-> "none", sources |-> <<>>]

\* The source lists of at most n values drawn from a set.
Lists(S, n) == UNION {[1..k -> S] : k \in 0..n}

\* Before any call: the caller's objects h, the values rs it may pass in
\* lists of at most n, and the options objects os it may pass.
InitWith(h, rs, n, os) ==
    /\ heap = h
    /\ visited = <<>>
    /\ stack = <<>>
    /\ status = "idle"
    /\ ret = Undefined
    /\ mode = "deep"
    /\ opts = PlainOptions
    /\ roots = rs
    /\ maxArgs = n
    /\ choices = os
    /\ call = NoCall
    /\ heap0 = h
    /\ visits = <<>>

\* ------------------------------------------------------------------ actions

\* A slip: one visited map for all calls (a module-level WeakMap).
InvokeSharedVisited(fn, md, resolved, sources) ==
    /\ status = "idle"
    /\ SetMach([StartCall(heap, md, resolved, sources) EXCEPT !.visited = visited])
    /\ call' = [fn |-> fn, sources |-> sources]
    /\ heap0' = heap
    /\ visits' = <<>>
    /\ UNCHANGED <<roots, maxArgs, choices>>

Invoke(fn, md, resolved, sources) ==
    /\ status = "idle"
    /\ SetMach(StartCall(heap, md, resolved, sources))
    /\ call' = [fn |-> fn, sources |-> sources]
    /\ heap0' = heap
    /\ visits' = <<>>
    /\ UNCHANGED <<roots, maxArgs, choices>>

\* The caller, handed the result or the exception of a call, goes on and may
\* call again; the objects of the ended call stay, its WeakMap is garbage
\* that nothing refers to (the variable keeps its last content).
CallerGoesOn ==
    /\ status \in {"done", "threw"}
    /\ Len(heap) < MaxObjects
    /\ status' = "idle"
    /\ stack' = <<>>
    /\ ret' = Undefined
    /\ UNCHANGED <<heap, visited, mode, opts, roots, maxArgs, choices, call, heap0, visits>>

\* deepMerge(...sources)
deepMerge ==
    \E sources \in Lists(roots, maxArgs) :
        Invoke("deepMerge", "deep", PlainOptions, sources)

\* deepMerge.withOptions(options, ...sources)
withOptions ==
    \E user \in choices, sources \in Lists(roots, maxArgs) :
        Invoke("withOptions", "deep", ResolveOptions(user), sources)

\* simpleMerge(...sources)
simpleMerge ==
    \E sources \in Lists(roots, maxArgs) :
        Invoke("simpleMerge", "simple", PlainOptions, sources)

Ghosts == UNCHANGED <<roots, maxArgs, choices, call, heap0, visits>>

ReturnCurrent ==
    /\ At(Mach) = "returnCurrent"
    /\ SetMach(StepReturnCurrent(Mach))
    /\ Ghosts

SkipAbsent ==
    /\ At(Mach) = "skipAbsent"
    /\ SetMach(StepSkipAbsent(Mach))
    /\ Ghosts

ReturnSource ==
    /\ At(Mach) = "returnSource"
    /\ SetMach(StepReturnSource(Mach))
    /\ Ghosts

Revisit ==
    /\ At(Mach) = "revisit"
    /\ SetMach(StepRevisit(Mach))
    /\ Ghosts

Visit ==
    /\ At(Mach) = "visit"
    /\ SetMach(StepVisit(Mach))
    /\ visits' = Append(visits, Head(Top(Mach).rest).v)
    /\ UNCHANGED <<roots, maxArgs, choices, call, heap0>>

LoopDone ==
    /\ At(Mach) = "loopDone"
    /\ SetMach(StepLoopDone(Mach))
    /\ Ghosts

KeyCustom ==
    /\ At(Mach) = "custom"
    /\ SetMach(StepKeyCustom(Mach))
    /\ Ghosts

KeyMap ==
    /\ At(Mach) = "map"
    /\ SetMach(StepKeyMap(Mach))
    /\ Ghosts

KeySet ==
    /\ At(Mach) = "set"
    /\ SetMach(StepKeySet(Mach))
    /\ Ghosts

KeyArray ==
    /\ At(Mach) = "array"
    /\ SetMach(StepKeyArray(Mach))
    /\ Ghosts

KeyDate ==
    /\ At(Mach) = "date"
    /\ SetMach(StepKeyDate(Mach))
    /\ Ghosts

KeyRecord ==
    /\ At(Mach) = "record"
    /\ SetMach(StepKeyRecord(Mach))
    /\ Ghosts

KeyPrimitive ==
    /\ At(Mach) = "primitive"
    /\ SetMach(StepKeyPrimitive(Mach))
    /\ Ghosts

\* ------------------------------------------------------------------ Spec:
\* Record graphs with primitive fields.

\* The four source Records of these graphs.
RecordIds == 1..4

\* Source Record i: key "a" holds the number i or is missing, key "b" holds a
\* Record or is missing; odd Records list "a" first, even ones "b" first.
RecordOf(i, hasA, b) ==
    LET pa == IF hasA THEN <<(<<"a", Num(i)>>)>> ELSE <<>>
        pb == IF b = 0 THEN <<>> ELSE <<(<<"b", Ref(b)>>)>>
    IN [EmptyRecord EXCEPT !.props = IF i % 2 = 1 THEN pa \o pb ELSE pb \o pa]

\* Where key "b" of each source Record may point (0: the key is missing).
Edges ==
    {e \in [RecordIds -> {0} \cup RecordIds] :
        /\ e[1] \in {0, 1, 2, 3}
        /\ e[2] \in {0, 1, 3, 4}
        /\ e[3] \in {0, 1, 4}
        /\ e[4] \in {0, 3}}

InitRec ==
    \E e \in Edges, hasA \in [RecordIds -> BOOLEAN] :
        /\ hasA[1] /\ hasA[2]
        /\ InitWith([i \in RecordIds |-> RecordOf(i, hasA[i], e[i])],
                    {Ref(1), Ref(2), Undefined}, MaxSources, {})

NextRec ==
    \/ deepMerge
    \/ simpleMerge
    \/ ReturnCurrent
    \/ SkipAbsent
    \/ Revisit
    \/ Visit
    \/ LoopDone
    \/ KeyRecord
    \/ KeyPrimitive

Spec == InitRec /\ [][NextRec]_vars

\* ------------------------------------------------------------------ SpecColl:
\* Records whose key "a" holds a Sequence, a UniqueSet, an AssocMap or a
\* Primitive, merged at the top level and one Record deep.

\* Longest Sequence / UniqueSet / AssocMap of a source.
MaxItems == 2

Elems == {Num(1), Num(2)}

Seqs(n) == UNION {[1..k -> Elems] : k \in 0..n}

NoDuplicates(s) == \A i, j \in 1..Len(s) : s[i] = s[j] => i = j

Primitives == {Num(0), Num(1), Str(0), Str(1), Bool(0), Bool(1), Null}

\* What key "a" may hold in a world of class c: the elements of a Sequence,
\* of a UniqueSet, the keys of an AssocMap, or a Primitive.
Pool(c) ==
    CASE c = "Array" -> Seqs(MaxItems)
      [] c = "Primitive" -> Primitives
      [] OTHER -> {s \in Seqs(MaxItems) : NoDuplicates(s)}

\* The collection of class c owned by source Record i; an AssocMap maps each
\* of its keys to the number i.
Collection(c, content, i) ==
    CASE c = "Array" -> [NewObj("Array") EXCEPT !.items = content]
      [] c = "Set" -> [NewObj("Set") EXCEPT !.items = content]
      [] OTHER -> [NewObj("Map") EXCEPT
                    !.entries = [k \in 1..Len(content) |-> <<content[k], Num(i)>>]]

Holder(val) == [EmptyRecord EXCEPT !.props = <<(<<"a", val>>)>>]

Outer(i) == [EmptyRecord EXCEPT !.props = <<(<<"b", Ref(i)>>)>>]

\* Records 1 and 2 hold v1 and v2 under "a"; Records 3 and 4 hold Records 1
\* and 2 under "b"; objects 5 and 6 are the collections.
CollHeap(c, v1, v2) ==
    IF c = "Primitive"
    THEN <<Holder(v1), Holder(v2), Outer(1), Outer(2)>>
    ELSE <<Holder(Ref(5)), Holder(Ref(6)), Outer(1), Outer(2),
           Collection(c, v1, 1), Collection(c, v2, 2)>>

NoOptions ==
    [arrayMergeStrategy |-> "absent", setMergeStrategy |-> "absent",
     mapMergeStrategy |-> "absent", dateMergeStrategy |-> "absent",
     customMergeFunctions |-> NoCustom]

CustomOn(tags, fn) ==
    [NoOptions EXCEPT !.customMergeFunctions = [g \in Tags |-> IF g \in tags THEN fn ELSE "none"]]

\* The options objects a caller passes for sources of class c: one strategy
\* field set (to a recognized string, to undefined or to an unrecognized
\* string) or one custom merge function registered.
UserOptions(c) ==
    CASE c = "Array" ->
            {[NoOptions EXCEPT !.arrayMergeStrategy = x] :
                x \in {"absent", "combine", "unique", "replace", "undefined", "bogus"}}
            \cup {CustomOn({"Array"}, "marker")}
      [] c = "Set" ->
            {[NoOptions EXCEPT !.setMergeStrategy = x] :
                x \in {"absent", "combine", "replace", "undefined", "bogus"}}
            \cup {CustomOn({"Set"}, "target")}
      [] c = "Map" ->
            {[NoOptions EXCEPT !.mapMergeStrategy = x] :
                x \in {"absent", "combine", "replace", "undefined", "bogus"}}
            \cup {CustomOn({"Map"}, "marker")}
      [] c = "Date" ->
            {[NoOptions EXCEPT !.dateMergeStrategy = x] :
                x \in {"absent", "replace", "keepEarlier", "keepLater", "undefined", "bogus"}}
            \cup {CustomOn({"Date"}, "target")}
      [] OTHER ->
            {NoOptions, CustomOn({"Number", "String", "Boolean"}, "marker"),
             CustomOn({"Number", "String", "Boolean"}, "target"),
             CustomOn({"Object"}, "marker")}

InitColl ==
    \E c \in {"Array", "Set", "Map", "Primitive"}, nested \in BOOLEAN :
        \E v1, v2 \in Pool(c) :
            InitWith(CollHeap(c, v1, v2),
                     IF nested THEN {Ref(3), Ref(4)} ELSE {Ref(1), Ref(2)},
                     MaxSources, UserOptions(c))

NextColl ==
    \/ deepMerge
    \/ withOptions
    \/ ReturnCurrent
    \/ Revisit
    \/ Visit
    \/ LoopDone
    \/ KeyCustom
    \/ KeyMap
    \/ KeySet
    \/ KeyArray
    \/ KeyRecord
    \/ KeyPrimitive

SpecColl == InitColl /\ [][NextColl]_vars

\* ------------------------------------------------------------------ SpecDate:
\* Records whose key "a" holds a DateScalar, in lists of up to LongList.

\* Longest list of sources in the specifications with few objects.
LongList == 3

DateObj(t) == [NewObj("Date") EXCEPT !.time = t]

\* Records 1 and 2 hold the dates 4 and 5 under "a", Record 3 the number 7.
DateHeap(t1, t2) ==
    <<Holder(Ref(4)), Holder(Ref(5)), Holder(Num(7)), DateObj(t1), DateObj(t2)>>

InitDate ==
    \E t1, t2 \in 0..MaxTime :
        InitWith(DateHeap(t1, t2), {Ref(1), Ref(2), Ref(3)}, LongList, UserOptions("Date"))

NextDate ==
    \/ deepMerge
    \/ withOptions
    \/ ReturnCurrent
    \/ Revisit
    \/ Visit
    \/ LoopDone
    \/ KeyCustom
    \/ KeyDate
    \/ KeyPrimitive

SpecDate == InitDate /\ [][NextDate]_vars

\* ------------------------------------------------------------------ SpecAbsent:
\* Lists with undefined and null entries, for the three entry points.

\* What key "a" of the two source Records may hold: a number, the Sequence
\* [1, 2] (object 3) or a date (object 4).
AbsentFields == {Num(1), Ref(3), Ref(4)}

\* Record 1 holds x under "a" and Record 2 under "b"; Record 2 holds y.
AbsentHeap(x, y) ==
    <<[EmptyRecord EXCEPT !.props = <<(<<"a", x>>), (<<"b", Ref(2)>>)>>],
      Holder(y),
      [NewObj("Array") EXCEPT !.items = <<Num(1), Num(2)>>],
      DateObj(1)>>

InitAbsent ==
    \E x, y \in AbsentFields :
        InitWith(AbsentHeap(x, y), {Ref(1), Ref(2), Undefined, Null, Num(7)}, LongList,
                 {NoOptions, [NoOptions EXCEPT !.arrayMergeStrategy = "unique"]})

NextAbsent ==
    \/ deepMerge
    \/ withOptions
    \/ simpleMerge
    \/ ReturnCurrent
    \/ SkipAbsent
    \/ ReturnSource
    \/ Revisit
    \/ Visit
    \/ LoopDone
    \/ KeyArray
    \/ KeyDate
    \/ KeyRecord
    \/ KeyPrimitive

SpecAbsent == InitAbsent /\ [][NextAbsent]_vars

\* ------------------------------------------------------------------ SpecMix:
\* Records whose key "a" holds values of different classes in different
\* sources, with cycles, and a date among the top-level sources.

\* What key "a" of Records 1 and 2 may hold: a number, the date (object 4),
\* the Sequence (object 5) or Record 3.
MixFields == {Num(1), Ref(4), Ref(5), Ref(3)}

\* What key "a" of Record 3 may hold; Undefined stands for a missing key.
MixInner == {Undefined, Num(3), Ref(1), Ref(3)}

MixHeap(x, y, z) ==
    <<Holder(x), Holder(y),
      IF z = Undefined THEN EmptyRecord ELSE Holder(z),
      DateObj(1),
      [NewObj("Array") EXCEPT !.items = <<Num(1)>>]>>

InitMix ==
    \E x, y \in MixFields, z \in MixInner :
        InitWith(MixHeap(x, y, z), {Ref(1), Ref(2), Ref(4)}, LongList,
                 {[NoOptions EXCEPT !.arrayMergeStrategy = "replace"]})

NextMix ==
    \/ deepMerge
    \/ withOptions
    \/ simpleMerge
    \/ ReturnCurrent
    \/ Revisit
    \/ Visit
    \/ LoopDone
    \/ KeyArray
    \/ KeyDate
    \/ KeyRecord
    \/ KeyPrimitive

SpecMix == InitMix /\ [][NextMix]_vars

\* The core function is straight-line code: a call under way takes its next
\* step.
FairMix == SpecMix /\ WF_vars(NextMix)

\* ------------------------------------------------------------------ SpecShare:
\* Records whose two keys may both hold Records, so that one nested Record
\* can sit under several keys.

\* What each key of Record 1 may hold.
ShareFields == {Num(1), Ref(2), Ref(3)}

\* Record 1 holds both keys; Record 2 holds a number or nothing under "a" and
\* Record 3, Record 1 or nothing under "b"; Record 3 holds at most a number.
ShareHeap(x, y, a2, b2, a3) ==
    LET field(k, val) == IF val = Undefined THEN <<>> ELSE <<(<<k, val>>)>>
    IN <<[EmptyRecord EXCEPT !.props = <<(<<"a", x>>), (<<"b", y>>)>>],
         [EmptyRecord EXCEPT !.props = field("a", a2) \o field("b", b2)],
         [EmptyRecord EXCEPT !.props = field("a", a3)]>>

InitShare ==
    \E x, y \in ShareFields, a2 \in {Undefined, Num(2)},
       b2 \in {Undefined, Ref(3), Ref(1)}, a3 \in {Undefined, Num(3)} :
        InitWith(ShareHeap(x, y, a2, b2, a3), {Ref(1), Ref(2)}, MaxSources, {})

NextShare ==
    \/ deepMerge
    \/ simpleMerge
    \/ ReturnCurrent
    \/ Revisit
    \/ Visit
    \/ LoopDone
    \/ KeyRecord
    \/ KeyPrimitive

SpecShare == InitShare /\ [][NextShare]_vars


\* ------------------------------------------------------------------ SpecTop:
\* Lists whose top-level sources are Records, collections, a date and
\* Primitives, for the three entry points.

\* Records 1 and 2, then a Sequence, a UniqueSet, an AssocMap and a date.
TopHeap(t) ==
    <<Holder(Num(1)),
      [EmptyRecord EXCEPT !.props = <<(<<"b", Num(2)>>)>>],
      Collection("Array", <<Num(1)>>, 3),
      Collection("Set", <<Num(1)>>, 4),
      Collection("Map", <<Num(1)>>, 5),
      DateObj(t)>>

TopRoots == {Ref(i) : i \in 1..6} \cup {Num(0), Str(1)}

InitTop ==
    \E t \in 0..MaxTime : InitWith(TopHeap(t), TopRoots, LongList, {NoOptions})

NextTop ==
    \/ deepMerge
    \/ withOptions
    \/ simpleMerge
    \/ ReturnCurrent
    \/ ReturnSource
    \/ Revisit
    \/ Visit
    \/ LoopDone
    \/ KeyPrimitive

SpecTop == InitTop /\ [][NextTop]_vars


\* ------------------------------------------------------------------ SpecAgain:
\* Calls that follow one another on the same Records, cycles included.

\* Record 1 holds Record 2 under "b"; Record 2 holds v under "b" (nothing,
\* Record 1 or itself).
AgainHeap(v) ==
    <<[EmptyRecord EXCEPT !.props = <<(<<"a", Num(1)>>), (<<"b", Ref(2)>>)>>],
      [EmptyRecord EXCEPT !.props =
          <<(<<"a", Num(2)>>)>> \o (IF v = Undefined THEN <<>> ELSE <<(<<"b", v>>)>>)]>>

InitAgain ==
    \E v \in {Undefined, Ref(1), Ref(2)} :
        InitWith(AgainHeap(v), {Ref(1), Ref(2)}, MaxSources, {NoOptions})

NextAgain ==
    \/ deepMerge
    \/ withOptions
    \/ simpleMerge
    \/ CallerGoesOn
    \/ ReturnCurrent
    \/ Revisit
    \/ Visit
    \/ LoopDone
    \/ KeyRecord
    \/ KeyPrimitive

SpecAgain == InitAgain /\ [][NextAgain]_vars


\* ------------------------------------------------------------------ SpecBoth:
\* The Records of SpecShare (shared and cyclic), with absent values and a
\* Primitive among the top-level sources, for deepMerge and simpleMerge.

InitBoth ==
    \E x, y \in ShareFields, a2 \in {Undefined, Num(2)},
       b2 \in {Undefined, Ref(3), Ref(1)}, a3 \in {Undefined, Num(3)} :
        InitWith(ShareHeap(x, y, a2, b2, a3),
                 {Ref(1), Ref(2), Undefined, Null, Num(7)}, MaxSources, {})

NextBoth ==
    \/ deepMerge
    \/ simpleMerge
    \/ ReturnCurrent
    \/ SkipAbsent
    \/ ReturnSource
    \/ Revisit
    \/ Visit
    \/ LoopDone
    \/ KeyRecord
    \/ KeyPrimitive

SpecBoth == InitBoth /\ [][NextBoth]_vars


\* ------------------------------------------------------------------ key paths

Missing == [t |-> "missing", v |-> 0]

\* The key paths of 1..n keys, and with the empty path.
Paths(n) == UNION {[1..k -> Keys] : k \in 1..n}

Paths0(n) == Paths(n) \cup {<<>>}

RECURSIVE ValueAt(_, _, _)
\* The value a key path leads to from x on heap h, Missing if a key on the way
\* is no own property.
ValueAt(h, x, path) ==
    IF path = <<>> THEN x
    ELSE IF ~HasProp(h, x, Head(path)) THEN Missing
    ELSE ValueAt(h, GetProp(h, x, Head(path)), Tail(path))

MaxOf(S) == CHOOSE x \in S : \A y \in S : y <= x

Called(fns) == status = "done" /\ call.fn \in fns

NumSources == Len(call.sources)

\* The sources of the call that define key path p.
Defining(p) == {i \in 1..NumSources : ValueAt(heap0, call.sources[i], p) # Missing}

\* What the last source defining p holds there.
LastValue(p) == ValueAt(heap0, call.sources[MaxOf(Defining(p))], p)

AllRecordSources == \A i \in 1..NumSources : IsObject(heap0, call.sources[i])

\* (source index, key path) pairs that lead to an object.
Occurrences ==
    {o \in (1..NumSources) \X Paths0(MaxPath) :
        IsRef(ValueAt(heap0, call.sources[o[1]], o[2]))}

ObjectAt(o) == ValueAt(heap0, call.sources[o[1]], o[2])

\* Every object of the sources is met at one place only (so no cycle, no
\* sharing, no source repeated).
EachRecordOnce == \A x, y \in Occurrences : ObjectAt(x) = ObjectAt(y) => x = y

\* No object of the sources reaches itself.
Acyclic ==
    \A r \in {ObjectAt(o) : o \in Occurrences} :
        \A q \in Paths(MaxPath) : ValueAt(heap0, r, q) # r

\* Every field of the sources is a Primitive or a Record.
OnlyPrimitivesAndRecords ==
    \A o \in Occurrences : KindOf(heap0, ObjectAt(o)) = "Object"

ClassOf(h, x) == IF IsRef(x) THEN h[x.v].kind ELSE "Primitive"

\* A key path has one class in all the sources that define it.
SameClassEverywhere ==
    \A p \in Paths(MaxPath) :
        \A i, j \in Defining(p) :
            ClassOf(heap0, ValueAt(heap0, call.sources[i], p))
                = ClassOf(heap0, ValueAt(heap0, call.sources[j], p))

\* ------------------------------------------------------------------ claims

\* C1: deepMerge / simpleMerge of acyclic Record sources with Primitive and
\* Record fields only, every Record met once and every key path of one class:
\* the result has exactly the key paths some source defines, a Primitive path
\* holds the value of the last source defining it, and a Record path holds a
\* Record (so nested Records are merged key by key).
C1_MergeOfDisjointRecords ==
    (/\ Called({"deepMerge", "simpleMerge"})
     /\ AllRecordSources
     /\ OnlyPrimitivesAndRecords
     /\ EachRecordOnce
     /\ SameClassEverywhere)
    => \A p \in Paths(MaxPath) :
          /\ (ValueAt(heap, ret, p) # Missing) <=> (Defining(p) # {})
          /\ Defining(p) # {} =>
                IF IsRef(LastValue(p))
                THEN KindOf(heap, ValueAt(heap, ret, p)) = "Object"
                ELSE ValueAt(heap, ret, p) = LastValue(p)

\* C1's case: {a:1, b:{a:3}} merged with {a:2, b:{}}: the nested key of the
\* earlier source survives beside the later source's override.
C1_Witness ==
    /\ Called({"deepMerge", "simpleMerge"})
    /\ call.sources = <<Ref(1), Ref(2)>>
    /\ EachRecordOnce
    /\ ValueAt(heap0, Ref(1), <<"b", "a">>) = Num(3)
    /\ ValueAt(heap0, Ref(2), <<"b">>) = Ref(4)
    /\ ValueAt(heap0, Ref(2), <<"b", "a">>) = Missing
    /\ ValueAt(heap, ret, <<"a">>) = Num(2)
    /\ ValueAt(heap, ret, <<"b", "a">>) = Num(3)

\* C2: deepMerge over acyclic Record sources, a Record possibly repeated or
\* shared: every Primitive key path of the result holds the value of the last
\* source that defines it.
C2_LastSourceWins ==
    (/\ Called({"deepMerge"})
     /\ AllRecordSources
     /\ OnlyPrimitivesAndRecords
     /\ Acyclic)
    => \A p \in Paths(MaxPath) :
          (Defining(p) # {} /\ ~IsRef(LastValue(p)))
              => ValueAt(heap, ret, p) = LastValue(p)

\* C2's case: a call of deepMerge on two Record sources has returned.
C2_Witness == Called({"deepMerge"}) /\ NumSources = 2 /\ AllRecordSources /\ Acyclic

\* The objects key paths lead to from the single source of the call.
Reached == {ValueAt(heap0, call.sources[1], p) : p \in Paths0(MaxPath)} \ {Missing}

\* Where the result holds the counterparts of source object r.
DestinationsOf(r) ==
    {ValueAt(heap, ret, p) :
        p \in {q \in Paths0(MaxPath) : ValueAt(heap0, call.sources[1], q) = r}}

\* C9: deepMerge(x) of one Record, cycles allowed: every source Record reached
\* from x has one destination Record, and every key path of x leading to that
\* Record leads in the result to that destination (the empty path: x itself
\* leads to the result itself).
C9_CyclesMirrored ==
    (Called({"deepMerge"}) /\ NumSources = 1 /\ AllRecordSources
        /\ OnlyPrimitivesAndRecords)
    => \A r \in {x \in Reached : IsRef(x)} :
          /\ Cardinality(DestinationsOf(r)) = 1
          /\ \A d \in DestinationsOf(r) :
                KindOf(heap, d) = "Object" /\ d.v > Len(heap0)

\* C9's case: a.b is b and b.b is a; deepMerge(a).b.b is the result itself.
C9_Witness ==
    /\ Called({"deepMerge"})
    /\ call.sources = <<Ref(1)>>
    /\ ValueAt(heap0, Ref(1), <<"b">>) = Ref(2)
    /\ ValueAt(heap0, Ref(2), <<"b">>) = Ref(1)
    /\ ValueAt(heap, ret, <<"b", "b">>) = ret
    /\ ValueAt(heap, ret, <<"b">>) # ret

\* ---- the step that handles one key of the source being walked

\* The innermost frame is in its for-in at a key that branch b takes.
AtKey(b) == At(Mach) = b

\* The accumulator's value at the key before the step: a collection of that
\* kind, or nothing.
TargetIs(kind) == TargetValue(Mach) = Undefined \/ KindOf(heap, TargetValue(Mach)) = kind

TargetItems == IF IsRef(TargetValue(Mach)) THEN heap[TargetValue(Mach).v].items ELSE <<>>

TargetMapEntries == IF IsRef(TargetValue(Mach)) THEN heap[TargetValue(Mach).v].entries ELSE <<>>

SourceItems == heap[SourceValue(Mach).v].items

SourceMapEntries == heap[SourceValue(Mach).v].entries

\* The accumulator's value at the key after the step.
Stored == GetProp(heap', Top(Mach).cur, CurKey(Mach))

StoredObject == heap'[Stored.v]

\* The elements of s at the indices in idx, in order.
KeepAt(s, idx) ==
    [k \in 1..Cardinality(idx) |->
        s[CHOOSE i \in idx : Cardinality({j \in idx : j < i}) = k - 1]]

\* s without every element that equals an earlier one.
FirstOccurrences(s) ==
    KeepAt(s, {i \in 1..Len(s) : \A j \in 1..(i - 1) : s[j] # s[i]})

Range(s) == {s[i] : i \in 1..Len(s)}

\* C3: a Sequence source value S over a Sequence or absent accumulator value
\* T, at any depth: "combine" stores concat(T, S), "unique" stores concat(T, S)
\* without the elements equal to an earlier one, "replace" stores the
\* elements of S.
C3_SequenceStrategies ==
    [][(AtKey("array") /\ TargetIs("Array")) =>
          /\ status' = "running"
          /\ IsArray(heap', Stored)
          /\ opts.arrayMergeStrategy = "combine" =>
                StoredObject.items = TargetItems \o SourceItems
          /\ opts.arrayMergeStrategy = "unique" =>
                StoredObject.items = FirstOccurrences(TargetItems \o SourceItems)
          /\ opts.arrayMergeStrategy = "replace" =>
                StoredObject.items = SourceItems]_vars

\* C3's case: {a: [1, 2]} and {a: [2, 2]} merged under "unique" give [1, 2].
C3_Witness ==
    /\ Called({"withOptions"})
    /\ opts.arrayMergeStrategy = "unique"
    /\ call.sources = <<Ref(1), Ref(2)>>
    /\ IsArray(heap0, Ref(5))
    /\ heap0[5].items = <<Num(1), Num(2)>>
    /\ heap0[6].items = <<Num(2), Num(2)>>
    /\ heap[ValueAt(heap, ret, <<"a">>).v].items = <<Num(1), Num(2)>>

\* C4: a UniqueSet source value S over a UniqueSet or absent accumulator value
\* T: "combine" stores T's elements in their order followed by the elements
\* of S not in T, in S's order; "replace" stores the elements of S in S's
\* order.
C4_SetStrategies ==
    [][(AtKey("set") /\ TargetIs("Set")) =>
          /\ status' = "running"
          /\ IsSet(heap', Stored)
          /\ opts.setMergeStrategy = "combine" =>
                StoredObject.items =
                    TargetItems \o SelectSeq(SourceItems, LAMBDA x : x \notin Range(TargetItems))
          /\ opts.setMergeStrategy = "replace" =>
                StoredObject.items = SourceItems]_vars

\* C4's case: {a: Set [1, 2]} then {a: Set [2]} under "replace" give Set [2].
C4_Witness ==
    /\ Called({"withOptions"})
    /\ opts.setMergeStrategy = "replace"
    /\ call.sources = <<Ref(1), Ref(2)>>
    /\ IsSet(heap0, Ref(5))
    /\ heap0[5].items = <<Num(1), Num(2)>>
    /\ heap0[6].items = <<Num(2)>>
    /\ heap[ValueAt(heap, ret, <<"a">>).v].items = <<Num(2)>>

MapKeys(es) == {es[i][1] : i \in 1..Len(es)}

MapValue(es, k) == es[CHOOSE i \in 1..Len(es) : es[i][1] = k][2]

\* C5: an AssocMap source value S over an AssocMap or absent accumulator
\* value T: "combine" stores T's keys in T's order, each with S's value if S
\* has the key and T's value otherwise, followed by the entries of S whose key
\* T lacks, in S's order; "replace" stores the entries of S.
C5_MapStrategies ==
    [][(AtKey("map") /\ TargetIs("Map")) =>
          /\ status' = "running"
          /\ IsMap(heap', Stored)
          /\ opts.mapMergeStrategy = "combine" =>
                StoredObject.entries =
                    [i \in 1..Len(TargetMapEntries) |->
                        LET k == TargetMapEntries[i][1]
                        IN IF k \in MapKeys(SourceMapEntries)
                           THEN <<k, MapValue(SourceMapEntries, k)>>
                           ELSE TargetMapEntries[i]]
                    \o SelectSeq(SourceMapEntries,
                                 LAMBDA e : e[1] \notin MapKeys(TargetMapEntries))
          /\ opts.mapMergeStrategy = "replace" =>
                StoredObject.entries = SourceMapEntries]_vars

\* C5's case: {a: Map [1 -> 1, 2 -> 1]} and {a: Map [2 -> 2]} combined give
\* Map [1 -> 1, 2 -> 2].
C5_Witness ==
    /\ Called({"deepMerge", "withOptions"})
    /\ opts.mapMergeStrategy = "combine"
    /\ call.sources = <<Ref(1), Ref(2)>>
    /\ IsMap(heap0, Ref(5))
    /\ heap0[5].entries = <<(<<Num(1), Num(1)>>), (<<Num(2), Num(1)>>)>>
    /\ heap0[6].entries = <<(<<Num(2), Num(2)>>)>>
    /\ heap[ValueAt(heap, ret, <<"a">>).v].entries
            = <<(<<Num(1), Num(1)>>), (<<Num(2), Num(2)>>)>>

\* The innermost frame of a deepMerge call is in its for-in at a key whose
\* source value has a type tag with a custom merge function.
HasCustomForTag ==
    /\ status = "running" /\ mode = "deep"
    /\ Top(Mach).pc = "loop" /\ Top(Mach).keys # <<>>
    /\ TypeTag(heap, SourceValue(Mach)) \in Tags
    /\ opts.customMergeFunctions[TypeTag(heap, SourceValue(Mach))] # "none"

\* C8: a field whose source value has a type tag with a custom merge function
\* is set to customFn(accumulator[key], sourceValue), whatever the value.
C8_CustomConsultedFirst ==
    [][HasCustomForTag =>
          /\ status' = "running"
          /\ Stored = ApplyCustom(opts.customMergeFunctions[TypeTag(heap, SourceValue(Mach))],
                                  TargetValue(Mach), SourceValue(Mach))]_vars

\* C8's case: a call with a custom merge function for the tag of a field's
\* value has returned.
C8_Witness ==
    /\ Called({"withOptions"})
    /\ NumSources >= 1
    /\ \E g \in {"Number", "String", "Boolean"} : opts.customMergeFunctions[g] = "marker"
    /\ ValueAt(heap0, call.sources[1], <<"a">>) # Missing
    /\ TypeTag(heap0, ValueAt(heap0, call.sources[1], <<"a">>)) \in Tags

IsAbsent(x) == x.t \in {"undefined", "null"}

\* The call made, on the list without its undefined and null entries, run to
\* its end.
WithoutAbsent ==
    RunToEnd(StartCall(heap0, mode, opts, SelectSeq(call.sources, LAMBDA x : ~IsAbsent(x))))

\* C7: for deepMerge, deepMerge.withOptions and simpleMerge, the call on the
\* list without its undefined and null entries ends the same way, returns the
\* same value and leaves the same objects; a list of absent sources only
\* returns a new empty Record.
C7_AbsentSourcesAreNoOps ==
    status \in {"done", "threw"} =>
        /\ WithoutAbsent.status = status
        /\ WithoutAbsent.ret = ret
        /\ WithoutAbsent.heap = heap
        /\ (\A i \in 1..NumSources : IsAbsent(call.sources[i])) =>
                /\ status = "done"
                /\ ret = Ref(Len(heap0) + 1)
                /\ heap[ret.v] = EmptyRecord

\* C7's case: deepMerge(a, undefined, b) has returned a's and b's merge.
C7_Witness ==
    /\ Called({"deepMerge"})
    /\ call.sources = <<Ref(2), Undefined, Ref(1)>>
    /\ ValueAt(heap, ret, <<"b", "a">>) # Missing
    /\ ret.v > Len(heap0)

MinOf(S) == CHOOSE x \in S : \A y \in S : x <= y

\* Every source of the call is a Record holding a date under "a".
AllHoldDates ==
    /\ NumSources >= 1
    /\ \A i \in 1..NumSources :
          IsObject(heap0, call.sources[i])
              /\ IsDate(heap0, ValueAt(heap0, call.sources[i], <<"a">>))

SourceTime(i) == heap0[ValueAt(heap0, call.sources[i], <<"a">>).v].time

\* C6 (the step): a DateScalar source value d over an accumulator value that
\* is no DateScalar is stored as it is; over a date t, "keepEarlier" stores t
\* if t < d and d otherwise, "keepLater" t if t > d and d otherwise, any other
\* strategy d.
C6_DateStep ==
    [][AtKey("date") =>
          LET t == TargetValue(Mach)
              d == SourceValue(Mach)
          IN /\ status' = "running"
             /\ ~IsDate(heap, t) => Stored = d
             /\ (IsDate(heap, t) /\ opts.dateMergeStrategy = "keepEarlier") =>
                   Stored = IF heap[t.v].time < heap[d.v].time THEN t ELSE d
             /\ (IsDate(heap, t) /\ opts.dateMergeStrategy = "keepLater") =>
                   Stored = IF heap[t.v].time > heap[d.v].time THEN t ELSE d
             /\ (IsDate(heap, t) /\ opts.dateMergeStrategy = "replace") => Stored = d]_vars

\* C6 (over a list): when every source holds a date at the key, "keepEarlier"
\* ends with the minimum instant, "keepLater" with the maximum and "replace"
\* with the last source's.
C6_DatesOverList ==
    (/\ Called({"deepMerge", "withOptions"})
     /\ opts.customMergeFunctions = NoCustom
     /\ AllHoldDates)
    => LET r == ValueAt(heap, ret, <<"a">>)
           times == {SourceTime(i) : i \in 1..NumSources}
       IN /\ IsDate(heap, r)
          /\ opts.dateMergeStrategy = "keepEarlier" => heap[r.v].time = MinOf(times)
          /\ opts.dateMergeStrategy = "keepLater" => heap[r.v].time = MaxOf(times)
          /\ opts.dateMergeStrategy = "replace" => heap[r.v].time = SourceTime(NumSources)

\* C6's case: three sources holding dates merged under "keepEarlier".
C6_Witness ==
    /\ Called({"withOptions"})
    /\ opts.dateMergeStrategy = "keepEarlier"
    /\ NumSources = 3
    /\ AllHoldDates
    /\ IsDate(heap, ValueAt(heap, ret, <<"a">>))

\* The plain objects among the source objects: the source Records.
SourceRecords == {i \in DOMAIN heap0 : heap0[i].kind = "Object"}

\* The Records whose fields the call has walked so far.
TraversedRecords == {i \in 1..Len(visits) : heap[visits[i]].kind = "Object"}

\* C10 (the count): the Records whose fields a call walks are at most as
\* many as the distinct source Records.
C10_TraversalBound == Cardinality(TraversedRecords) <= Cardinality(SourceRecords)

\* A call over a cyclic graph, with a date among its sources, has returned.
C10_Witness ==
    /\ status = "done"
    /\ \E i \in SourceRecords : \E p \in Paths(MaxPath) : ValueAt(heap0, Ref(i), p) = Ref(i)
    /\ \E i \in 1..Len(call.sources) : IsDate(heap0, call.sources[i])

\* C10 (termination): every call returns or throws.
C10_Terminates == (status = "running") ~> (status \in {"done", "threw"})

\* deepMerge(x) for the first source x of the call, run to its end.
AloneFirst == RunToEnd(StartCall(heap0, "deep", PlainOptions, <<call.sources[1]>>))

\* C11: for an acyclic Record x with Primitive and Record fields only,
\* deepMerge(x, x) and deepMerge(x) agree at every key path: both miss it,
\* both hold the same Primitive, or both hold a Record.
C11_SelfMergeIdempotent ==
    (/\ Called({"deepMerge"})
     /\ NumSources = 2
     /\ call.sources[1] = call.sources[2]
     /\ OnlyPrimitivesAndRecords
     /\ Acyclic)
    => /\ AloneFirst.status = "done"
       /\ \A p \in Paths0(MaxPath) :
            LET two == ValueAt(heap, ret, p)
                one == ValueAt(AloneFirst.heap, AloneFirst.ret, p)
            IN IF IsRef(one)
               THEN IsRef(two) /\ KindOf(heap, two) = KindOf(AloneFirst.heap, one)
               ELSE two = one

\* C11's case: x = {a: s, b: s} with s = {a: 3}; deepMerge(x, x) has returned
\* and holds 3 under both keys.
C11_Witness ==
    /\ Called({"deepMerge"})
    /\ call.sources = <<Ref(1), Ref(1)>>
    /\ Acyclic
    /\ ValueAt(heap0, Ref(1), <<"a">>) = Ref(3)
    /\ ValueAt(heap0, Ref(1), <<"b">>) = Ref(3)
    /\ ValueAt(heap, ret, <<"a", "a">>) = Num(3)
    /\ ValueAt(heap, ret, <<"b", "a">>) = Num(3)


\* The places of the list that hold a non-absent value that is no Record.
Terminals ==
    {i \in 1..NumSources :
        ~IsAbsent(call.sources[i]) /\ ClassOf(heap0, call.sources[i]) # "Object"}

FirstTerminal == MinOf(Terminals)

\* No source before place i is given twice.
DistinctBefore(i) ==
    \A j, k \in 1..(i - 1) : call.sources[j] = call.sources[k] => j = k

\* C12: when the first top-level source that is no Record (a Sequence, a
\* UniqueSet, an AssocMap, a date or a non-absent Primitive) comes after
\* distinct Records only, the call returns that very value and walks no
\* source from it on.
C12_TopLevelTerminal ==
    (/\ status \in {"done", "threw"}
     /\ Terminals # {}
     /\ DistinctBefore(FirstTerminal))
    => /\ status = "done"
       /\ ret = call.sources[FirstTerminal]
       /\ Len(visits) < FirstTerminal

\* The same for every terminal source but a date.
C12_NonDateTerminal ==
    (/\ status \in {"done", "threw"}
     /\ Terminals # {}
     /\ DistinctBefore(FirstTerminal)
     /\ ~IsDate(heap0, call.sources[FirstTerminal]))
    => /\ status = "done"
       /\ ret = call.sources[FirstTerminal]
       /\ Len(visits) < FirstTerminal

\* C12's case: a call whose list holds a date after a Record has ended.
C12_Witness ==
    /\ status = "done"
    /\ NumSources >= 2
    /\ KindOf(heap0, call.sources[1]) = "Object"
    /\ IsDate(heap0, call.sources[2])


\* The places of the list that hold a Record or a date: the sources the
\* engine walks.
Walked == {i \in 1..NumSources : IsObject(heap0, call.sources[i])}

\* What the last walked source holds under key "a".
LastA == GetProp(heap0, call.sources[MaxOf(Walked)], "a")

Opaque == {"Array", "Set", "Map", "Date"}

\* C13: simpleMerge over distinct Records (absent sources between them): when
\* the last Record holds a Sequence, a UniqueSet, an AssocMap or a date under
\* "a", the result holds that very value under "a".
C13_SimpleMergeOpaque ==
    (/\ status \in {"done", "threw"}
     /\ call.fn = "simpleMerge"
     /\ Terminals = {}
     /\ Walked # {}
     /\ DistinctBefore(NumSources + 1)
     /\ ClassOf(heap0, LastA) \in Opaque)
    => status = "done" /\ ValueAt(heap, ret, <<"a">>) = LastA

\* The same for the collections alone.
C13_SimpleMergeCollections ==
    (/\ status \in {"done", "threw"}
     /\ call.fn = "simpleMerge"
     /\ Terminals = {}
     /\ Walked # {}
     /\ DistinctBefore(NumSources + 1)
     /\ ClassOf(heap0, LastA) \in Opaque \ {"Date"})
    => status = "done" /\ ValueAt(heap, ret, <<"a">>) = LastA

\* C13's case: simpleMerge has folded a Record holding a date under "a".
C13_Witness ==
    /\ Called({"simpleMerge"})
    /\ Walked # {}
    /\ IsDate(heap0, LastA)


\* The strings each strategy field recognizes.
Recognized ==
    [arrayMergeStrategy |-> {"combine", "unique", "replace"},
     setMergeStrategy |-> {"combine", "replace"},
     mapMergeStrategy |-> {"combine", "replace"},
     dateMergeStrategy |-> {"replace", "keepEarlier", "keepLater"}]

\* The call made, under the default options, run to its end.
UnderDefaults == RunToEnd(StartCall(heap0, "deep", PlainOptions, call.sources))

\* Every strategy field the call runs under is the field's default or no
\* recognized string (the caller left it out, gave undefined or gave an
\* unknown string), and there is no custom merge function.
OnlyDefaultsInEffect ==
    /\ opts.customMergeFunctions = NoCustom
    /\ \A f \in StrategyFields : opts[f] \notin Recognized[f] \ {DEFAULT_OPTIONS[f]}

\* C14: the options a call of withOptions runs under are the caller's fields
\* laid over the defaults; when each strategy field is left out, undefined or
\* unrecognized, the call ends as under the defaults, with the same result
\* and the same objects.
C14_UnknownStrategyIsDefault ==
    (status \in {"done", "threw"} /\ call.fn = "withOptions")
    => /\ \E user \in choices : opts = ResolveOptions(user)
       /\ OnlyDefaultsInEffect =>
            /\ UnderDefaults.status = status
            /\ UnderDefaults.ret = ret
            /\ UnderDefaults.heap = heap

\* C14's case: a call under an unrecognized arrayMergeStrategy has merged two
\* Sequences.
C14_Witness ==
    /\ Called({"withOptions"})
    /\ opts.arrayMergeStrategy \in {"undefined", "bogus"}
    /\ NumSources = 2
    /\ call.sources[1] # call.sources[2]
    /\ \E p \in Paths(MaxPath) :
          /\ IsArray(heap, ValueAt(heap, ret, p))
          /\ Len(heap[ValueAt(heap, ret, p).v].items) = 2


\* C15: a call of deepMerge, or of withOptions without custom merge functions,
\* never ends with an exception, whatever classes the sources hold under one
\* key.
C15_NeverThrows ==
    (call.fn \in {"deepMerge", "withOptions"} /\ opts.customMergeFunctions = NoCustom)
    => status # "threw"

\* C15's case: a call on two Records that hold values of different classes
\* under "a" has ended.
C15_Witness ==
    /\ status \in {"done", "threw"}
    /\ call.fn \in {"deepMerge", "withOptions"}
    /\ NumSources = 2
    /\ AllRecordSources
    /\ ClassOf(heap0, GetProp(heap0, call.sources[1], "a"))
         # ClassOf(heap0, GetProp(heap0, call.sources[2], "a"))


\* C16: after deepMerge(object1, object2) on two distinct acyclic Records,
\* object1 itself holds the merge: every Primitive key path some source
\* defines leads, from object1, to the value of the last source defining it.
C16_FirstArgumentHoldsMerge ==
    (/\ Called({"deepMerge"})
     /\ NumSources = 2
     /\ AllRecordSources
     /\ OnlyPrimitivesAndRecords
     /\ EachRecordOnce
     /\ SameClassEverywhere)
    => \A p \in Paths(MaxPath) :
          (Defining(p) # {} /\ ~IsRef(LastValue(p)))
              => ValueAt(heap, call.sources[1], p) = LastValue(p)

\* C16's case: deepMerge(object1, object2) has returned, and object2 holds a
\* key that object1 lacks or holds with another value.
C16_Witness ==
    /\ Called({"deepMerge"})
    /\ NumSources = 2
    /\ AllRecordSources
    /\ EachRecordOnce
    /\ SameClassEverywhere
    /\ \E p \in Paths(MaxPath) :
          /\ ~IsRef(ValueAt(heap0, call.sources[2], p))
          /\ ValueAt(heap0, call.sources[2], p) # Missing
          /\ ValueAt(heap0, call.sources[1], p) # ValueAt(heap0, call.sources[2], p)
          /\ ValueAt(heap, ret, p) = ValueAt(heap0, call.sources[2], p)


\* C17: a call of deepMerge, or of withOptions without custom merge functions,
\* leaves every object the caller had before the call with the keys, elements,
\* entries and instant it had.
C17_SourcesUnchanged ==
    (call.fn \in {"deepMerge", "withOptions"} /\ opts.customMergeFunctions = NoCustom)
    => \A i \in DOMAIN heap0 : heap[i] = heap0[i]

\* The same when every field of the sources is a Primitive or a Record.
C17_RecordSourcesUnchanged ==
    call.fn \in {"deepMerge", "simpleMerge"} => \A i \in DOMAIN heap0 : heap[i] = heap0[i]

\* C17's case: a call has ended whose second source holds a Record under "a"
\* where the first holds a date or a Sequence.
C17_Witness ==
    /\ status \in {"done", "threw"}
    /\ call.fn \in {"deepMerge", "withOptions"}
    /\ NumSources = 2
    /\ AllRecordSources
    /\ ClassOf(heap0, GetProp(heap0, call.sources[1], "a")) \in {"Date", "Array"}
    /\ ClassOf(heap0, GetProp(heap0, call.sources[2], "a")) = "Object"


\* The call's options applied to its second source alone, run to its end: the
\* merge of that source over absent values.
AloneSecond == RunToEnd(StartCall(heap0, "deep", opts, <<call.sources[2]>>))

\* Two values, each on its heap, are of one class with the same elements,
\* entries and instant (Records: compared key path by key path).
Alike(h1, x, h2, y) ==
    IF IsRef(x) /\ IsRef(y)
    THEN /\ h1[x.v].kind = h2[y.v].kind
         /\ h1[x.v].items = h2[y.v].items
         /\ h1[x.v].entries = h2[y.v].entries
         /\ h1[x.v].time = h2[y.v].time
    ELSE x = y

\* C18: on two distinct acyclic Records whose values under "a" differ in
\* class, the second holding a Sequence or a Record there, deepMerge and
\* withOptions (no custom functions) end as for the second source alone and
\* give the same value at every key path below "a".
C18_OtherClassAsEmpty ==
    (/\ status \in {"done", "threw"}
     /\ call.fn \in {"deepMerge", "withOptions"}
     /\ opts.customMergeFunctions = NoCustom
     /\ NumSources = 2
     /\ AllRecordSources
     /\ EachRecordOnce
     /\ ClassOf(heap0, GetProp(heap0, call.sources[2], "a")) \in {"Array", "Object"}
     /\ ClassOf(heap0, GetProp(heap0, call.sources[1], "a"))
          # ClassOf(heap0, GetProp(heap0, call.sources[2], "a")))
    => /\ status = "done"
       /\ AloneSecond.status = "done"
       /\ \A p \in {q \in Paths(MaxPath) : q[1] = "a"} :
            Alike(heap, ValueAt(heap, ret, p),
                  AloneSecond.heap, ValueAt(AloneSecond.heap, AloneSecond.ret, p))

\* C18's case: a Sequence under "a" has been merged over a number.
C18_Witness ==
    /\ status \in {"done", "threw"}
    /\ call.fn \in {"deepMerge", "withOptions"}
    /\ NumSources = 2
    /\ AllRecordSources
    /\ EachRecordOnce
    /\ GetProp(heap0, call.sources[1], "a") = Num(1)
    /\ IsArray(heap0, GetProp(heap0, call.sources[2], "a"))


\* The value stored by the step is an object the step created.
StoredIsNew == IsRef(Stored) /\ Stored.v \notin DOMAIN heap

\* C19: the Array branch under "replace" stores the source Sequence object
\* itself; under every other arrayMergeStrategy, and the Set and Map branches
\* under every strategy, store a collection created by the step, which is no
\* object that existed before.
C19_CollectionAliasing ==
    [][/\ (AtKey("array") /\ TargetIs("Array")) =>
            IF opts.arrayMergeStrategy = "replace"
            THEN Stored = SourceValue(Mach) /\ Len(heap') = Len(heap)
            ELSE StoredIsNew /\ IsArray(heap', Stored)
       /\ (AtKey("set") /\ TargetIs("Set")) => StoredIsNew /\ IsSet(heap', Stored)
       /\ (AtKey("map") /\ TargetIs("Map")) => StoredIsNew /\ IsMap(heap', Stored)]_vars

\* C19's case: under map "replace" the result holds a map with the source's
\* entries that is not the source's map.
C19_Witness ==
    /\ Called({"withOptions"})
    /\ opts.mapMergeStrategy = "replace"
    /\ NumSources = 1
    /\ IsMap(heap0, ValueAt(heap0, call.sources[1], <<"a">>))
    /\ IsMap(heap, ValueAt(heap, ret, <<"a">>))
    /\ ValueAt(heap, ret, <<"a">>) # ValueAt(heap0, call.sources[1], <<"a">>)
    /\ heap[ValueAt(heap, ret, <<"a">>).v].entries
         = heap0[ValueAt(heap0, call.sources[1], <<"a">>).v].entries


\* The step reads a field of the source being walked.
ReadsField == status = "running" /\ Top(Mach).pc = "loop" /\ Top(Mach).keys # <<>>

\* C20: within a call the visited map only grows, by one source at a time
\* that it did not hold, and keeps every destination it holds; a source is in
\* the map when one of its fields is read; and each call of deepMerge,
\* withOptions and simpleMerge starts with an empty map, whatever an earlier
\* call left.
C20_CycleTracker ==
    [][/\ (status = "running") =>
            /\ \A i \in DOMAIN visited : i \in DOMAIN visited' /\ visited'[i] = visited[i]
            /\ Cardinality(DOMAIN visited' \ DOMAIN visited) <= 1
            /\ (DOMAIN visited' # DOMAIN visited) =>
                  /\ At(Mach) = "visit"
                  /\ DOMAIN visited' \ DOMAIN visited = {Head(Top(Mach).rest).v}
                  /\ visited'[Head(Top(Mach).rest).v] = Top(Mach).cur
       /\ ReadsField => Top(Mach).src.v \in DOMAIN visited
       /\ (status = "idle" /\ status' = "running") => visited' = <<>>]_vars

\* C20's case: a second call on a cyclic Record walks it again, the first
\* call's map being gone.
C20_Witness ==
    /\ status = "running"
    /\ Len(heap0) > 2
    /\ Acyclic = FALSE
    /\ visits # <<>>
    /\ \E i \in DOMAIN visited : visited[i].v > Len(heap0)


\* The destination the visited map holds for the first remaining source.
Recorded == visited[Head(Top(Mach).rest).v]

BackEdges == {p \in Paths(MaxPath) : ValueAt(heap0, call.sources[1], p) = call.sources[1]}

Front(p) == SubSeq(p, 1, Len(p) - 1)

\* The Record that holds the back-edge p under its last key.
Enclosing(p) == ValueAt(heap0, call.sources[1], Front(p))

\* The keys that follow the back-edge's key in the for-in of its Record.
SiblingsAfter(p) ==
    LET ks == ForInKeys(heap0, Enclosing(p))
        at == CHOOSE i \in 1..Len(ks) : ks[i] = p[Len(p)]
    IN {ks[j] : j \in (at + 1)..Len(ks)}

\* The call is deepMerge or simpleMerge on Records with Primitive and Record
\* fields, has returned, and its first source reaches itself.
MetBackEdge ==
    /\ Called({"deepMerge", "simpleMerge"})
    /\ NumSources >= 1
    /\ AllRecordSources
    /\ OnlyPrimitivesAndRecords
    /\ BackEdges # {}

\* C22 as stated: after a back-edge met at a nested key, the keys that follow
\* it in its Record are missing from the result, and the result is that of
\* the first source alone, whatever sources follow.
C22_BackEdgeAbandonsRest ==
    MetBackEdge =>
        /\ \A p \in BackEdges : \A k \in SiblingsAfter(p) :
              ValueAt(heap, ret, Front(p) \o <<k>>) = Missing
        /\ \A q \in Paths(MaxPath) :
              Alike(heap, ValueAt(heap, ret, q),
                    AloneFirst.heap, ValueAt(AloneFirst.heap, AloneFirst.ret, q))

\* C22 amended: a back-edge met at a nested key ends the nested call only.
\* Its key holds the destination recorded for the Record, here the result
\* itself; with one source, every key that follows it holds what the source
\* holds there; and a second, distinct source that the first does not reach
\* is folded in, its Primitive keys ending in the result.
C22_BackEdgeEndsNestedCallOnly ==
    MetBackEdge =>
        /\ NumSources = 1 =>
              \A p \in BackEdges :
                  /\ ValueAt(heap, ret, p) = ret
                  /\ \A k \in SiblingsAfter(p) :
                        LET v == ValueAt(heap0, call.sources[1], Front(p) \o <<k>>)
                            w == ValueAt(heap, ret, Front(p) \o <<k>>)
                        IN IF IsRef(v) THEN KindOf(heap, w) = "Object" ELSE w = v
        /\ (/\ NumSources = 2
            /\ \A q \in Paths0(MaxPath) :
                  ValueAt(heap0, call.sources[1], q) # call.sources[2])
           => \A k \in Keys :
                 LET v == GetProp(heap0, call.sources[2], k)
                 IN (HasProp(heap0, call.sources[2], k) /\ ~IsRef(v))
                        => GetProp(heap, ret, k) = v

\* C22's case: the first source holds, two Records down, a back-edge to
\* itself under "b" followed by the key "a"; the call has returned and the
\* result holds that "a".
C22_Witness ==
    /\ MetBackEdge
    /\ \E p \in BackEdges :
          /\ Len(p) >= 2
          /\ "a" \in SiblingsAfter(p)
          /\ ValueAt(heap, ret, Front(p) \o <<"a">>)
                = ValueAt(heap0, call.sources[1], Front(p) \o <<"a">>)
          /\ ValueAt(heap, ret, Front(p) \o <<"a">>) # Missing


\* The machine of a simpleMerge call taken as one of deepMerge: the same
\* objects, visited map and frames, under the core engine and its defaults.
AsDeep(m) == [m EXCEPT !.mode = "deep", !.opts = PlainOptions]

\* deepMerge on the sources of the call, run to its end.
DeepMergeOfSame == RunToEnd(StartCall(heap0, "deep", PlainOptions, call.sources))

\* C23: on Records (shared or cyclic), Primitives and absent values,
\* simpleMerge starts as deepMerge does on the same sources, and from every
\* state of its call the core engine takes the same step: the same objects,
\* visited map (source to destination), frames and outcome; so the call ends
\* as deepMerge does, with the same result on the same heap.
C23_SimpleMergeIsDeepMerge ==
    [][/\ (status = "idle" /\ mode' = "simple") =>
            AsDeep(Mach') = StartCall(heap, "deep", PlainOptions, call'.sources)
       /\ (status = "running" /\ mode = "simple") =>
            /\ AsDeep(Mach') = Step(AsDeep(Mach))
            /\ status' # "running" =>
                  /\ DeepMergeOfSame.status = status'
                  /\ DeepMergeOfSame.ret = ret'
                  /\ DeepMergeOfSame.heap = heap'
                  /\ DeepMergeOfSame.visited = visited']_vars

\* C23's case: simpleMerge has returned from a cyclic Record in which one
\* nested Record sits under both keys.
C23_Witness ==
    /\ Called({"simpleMerge"})
    /\ NumSources >= 1
    /\ call.sources[1] = Ref(1)
    /\ GetProp(heap0, Ref(1), "a") = Ref(2)
    /\ GetProp(heap0, Ref(1), "b") = Ref(2)
    /\ GetProp(heap0, Ref(2), "b") = Ref(1)
    /\ ValueAt(heap, ret, <<"a">>) = ValueAt(heap, ret, <<"b">>)
    /\ ValueAt(heap, ret, <<"a", "b">>) = ret


====
